---------------------------- MODULE Spec2Model ----------------------------
(***************************************************************************)
(* A model of RedditPersonaGenerator (src/reddit_persona_generator.py).    *)
(*                                                                         *)
(* Strings are sequences of tokens.  A token is a run of characters that   *)
(* the code's string operations never cut in two: "/" is the one character *)
(* the code splits on, "https:" ends with the only ':' of the alphabet,    *)
(* "reddit.com" is the host marker, "u" and "user" are the two profile     *)
(* path segments, "a" is any other name character and " " is whitespace.   *)
(***************************************************************************)
EXTENDS Integers, Sequences, FiniteSets, TLC

VARIABLES
    \* ---- extract_username_from_url, applied on its own
    url,            \* the argument
    upc,            \* "input", "once" (applied), "twice" (applied to its own output)
    res1,           \* the outcome of the first application
    res2,           \* the outcome of the application to res1's value
    \* ---- control of one generate_persona run (or of one method applied alone)
    pc,             \* the statement the run is at
    err,            \* the exception that ended the run, "none" while there is none
    \* ---- the generator object
    user_data,      \* self.user_data
    self_citations, \* self.citations
    \* ---- generate_persona's arguments and locals
    reddit_url, max_posts, max_comments, username,
    account_exists, \* the remote API: whether the account of the run resolves
    all_texts, topics_analysis, activity_analysis,
    persona_text, citations,
    \* ---- collect_user_data's locals and the remote API
    lookups,        \* how many times the remote user record was resolved
    yieldedPosts,   \* the submissions the iterator has yielded, in order
    yieldedComments,\* the comments the iterator has yielded, in order
    posts, comments,
    \* ---- the retry loop of generate_persona_with_llm
    attempt,        \* the loop variable of the next iteration
    outcomes,       \* what each generate_content call did, in order
    sleeps,         \* how many time.sleep(2) calls were made
    \* ---- the file system
    fs,             \* the report file: NoFile, or the chunks written to it
    \* ---- main
    environ,        \* os.environ: each variable is "unset", "" or holds a "value"
    missing_vars,   \* the variable names main has listed as missing
    generator       \* "none", or "constructed" once RedditPersonaGenerator() returned

urlVars == <<url, upc, res1, res2>>
ctlVars == <<pc, err>>
selfVars == <<user_data, self_citations>>
argVars == <<reddit_url, max_posts, max_comments, username, account_exists>>
anaVars == <<all_texts, topics_analysis, activity_analysis>>
outVars == <<persona_text, citations>>
collectVars == <<lookups, yieldedPosts, yieldedComments, posts, comments>>
llmVars == <<attempt, outcomes, sleeps>>
fileVars == <<fs>>
mainVars == <<environ, missing_vars, generator>>
runVars ==
    <<ctlVars, selfVars, argVars, anaVars, outVars, collectVars, llmVars, fileVars, mainVars>>
vars == <<urlVars, runVars>>

-----------------------------------------------------------------------------
(* Bounds *)

MaxUrlLen == 4      \* every token string up to this length is an input
MaxNameLen == 2     \* usernames of the shaped inputs have up to this many tokens
MaxItems == 2       \* a profile has up to this many submissions, and comments
MaxCap == 2         \* max_posts and max_comments range over 1..MaxCap
MaxTextLen == 3     \* every text of the small vocabulary up to this length is an input
MaxDistinct == 22   \* the analyzed texts hold up to this many distinct words
MaxActPosts == 5    \* the analyzed snapshots hold up to this many posts,
MaxActComments == 7 \* up to this many comments,
MaxSubs == 12       \* from up to this many subreddits
MaxScored == 2      \* the cited snapshots hold up to this many posts, and comments
MaxExcerptWords == 17  \* the cited texts hold up to this many words and one more

-----------------------------------------------------------------------------
(* Token strings and the str methods the code uses *)

Tok == {"https:", "/", "reddit.com", "www.", "user", "u", "a", " "}
NameTok == {"a", "u", "user"}
\* tokens made of scheme characters only (letters, digits, '+', '-', '.')
SchemeTok == {"reddit.com", "www.", "user", "u", "a"}

StringsUpTo(alphabet, n) == UNION {[1..k -> alphabet] : k \in 0..n}

None == [status |-> "none", val |-> <<>>]
Ok(v) == [status |-> "ok", val |-> v]
Raised(kind) == [status |-> kind, val |-> <<>>]

RECURSIVE LStrip(_, _)
LStrip(s, t) == IF s # <<>> /\ Head(s) = t THEN LStrip(Tail(s), t) ELSE s

RECURSIVE RStrip(_, _)
RStrip(s, t) ==
    IF s # <<>> /\ s[Len(s)] = t THEN RStrip(SubSeq(s, 1, Len(s) - 1), t) ELSE s

\* str.strip(chars)
StripTok(s, t) == RStrip(LStrip(s, t), t)

\* str.startswith
StartsWith(s, p) == Len(s) >= Len(p) /\ SubSeq(s, 1, Len(p)) = p

\* `sub in s` for a one-token sub
Contains(s, t) == \E i \in 1..Len(s) : s[i] = t

\* index of the first t in s, 0 if there is none (str.find + 1)
Find(s, t) ==
    IF Contains(s, t) THEN CHOOSE i \in 1..Len(s) : s[i] = t /\ \A j \in 1..(i-1) : s[j] # t
    ELSE 0

\* str.split('/'): the list of the pieces between the separators
RECURSIVE Split(_, _)
Split(s, t) ==
    IF ~Contains(s, t) THEN <<s>>
    ELSE LET i == Find(s, t)
         IN <<SubSeq(s, 1, i - 1)>> \o Split(SubSeq(s, i + 1, Len(s)), t)

\* str.replace(p, ''): left to right, non-overlapping
RECURSIVE Remove(_, _)
Remove(s, p) ==
    IF Len(s) < Len(p) THEN s
    ELSE IF StartsWith(s, p) THEN Remove(SubSeq(s, Len(p) + 1, Len(s)), p)
    ELSE <<Head(s)>> \o Remove(Tail(s), p)

\* urllib.parse.urlparse(url).path: a scheme is cut off when the text before
\* the first ':' is made of scheme characters; a following '//' starts the
\* netloc, which runs to the next '/'; the rest is the path.
UrlPath(s) ==
    LET c == Find(s, "https:")
        hasScheme == c > 0 /\ \A j \in 1..(c - 1) : s[j] \in SchemeTok
        rest == IF hasScheme THEN SubSeq(s, c + 1, Len(s)) ELSE s
    IN IF StartsWith(rest, <<"/", "/">>)
       THEN LET after == SubSeq(rest, 3, Len(rest))
                k == Find(after, "/")
            IN IF k = 0 THEN <<>> ELSE SubSeq(after, k, Len(after))
       ELSE rest

-----------------------------------------------------------------------------
(* extract_username_from_url *)

\* a wrong index: url.split('/')[1]
SecondSegment(s) ==
    LET parts == Split(s, "/") IN IF Len(parts) >= 2 THEN parts[2] ELSE parts[1]

\* url.split('/')[-1]
LastSegment(s) == LET parts == Split(s, "/") IN parts[Len(parts)]

\* the branch taken for a URL that contains the host marker
FromParsedPath(s) ==
    LET path_parts == Split(StripTok(UrlPath(s), "/"), "/")
    IN IF Len(path_parts) >= 2 /\ path_parts[1] \in {<<"user">>, <<"u">>}
       THEN Ok(path_parts[2])
       ELSE Raised("ValueError")

\* the branch taken for a bare username
BareUsername(s) == Remove(Remove(s, <<"u", "/">>), <<"/", "u", "/">>)

extract_username_from_url(raw) ==
    LET s == StripTok(raw, " ")
    IN IF StartsWith(s, <<"u", "/">>) \/ StartsWith(s, <<"/", "u", "/">>)
         THEN Ok(LastSegment(s))
       ELSE IF StartsWith(s, <<"reddit.com", "/", "u", "/">>)
               \/ StartsWith(s, <<"reddit.com", "/", "user", "/">>)
         THEN Ok(LastSegment(s))
       ELSE IF Contains(s, "reddit.com")
         THEN FromParsedPath(s)
       ELSE Ok(BareUsername(s))

-----------------------------------------------------------------------------
(* Inputs of the normalizer *)

Usernames == StringsUpTo(NameTok, MaxNameLen) \ {<<>>}

Hosts == {<<"reddit.com">>, <<"www.", "reddit.com">>}
Tails == {<<>>, <<"/">>, <<"/", "a">>, <<"/", "a", "/">>}

\* the prefixed forms of username n
ShortShapes(n) ==
    { <<"u", "/">> \o n, <<"/", "u", "/">> \o n,
      <<"reddit.com", "/", "u", "/">> \o n, <<"reddit.com", "/", "user", "/">> \o n }

\* full URLs of username n: scheme, host, /user/ or /u/, the name, a tail
FullUrls(n) ==
    { <<"https:", "/", "/">> \o h \o <<"/", seg, "/">> \o n \o t :
        h \in Hosts, seg \in {"user", "u"}, t \in Tails }

ShapedInputs == UNION {ShortShapes(n) \cup FullUrls(n) : n \in Usernames}

UrlInputs == StringsUpTo(Tok, MaxUrlLen) \cup Usernames \cup ShapedInputs

-----------------------------------------------------------------------------
(* Python values *)

\* the empty dict {}
EmptyDict == [k \in {} |-> 0]

\* d.get(k, default)
Get(d, k, default) == IF k \in DOMAIN d THEN d[k] ELSE default

\* {**a, **b}
Merge(a, b) == [k \in DOMAIN a \cup DOMAIN b |-> IF k \in DOMAIN b THEN b[k] ELSE a[k]]

\* s[:n]
Take(s, n) == SubSeq(s, 1, IF Len(s) < n THEN Len(s) ELSE n)

\* the concatenation of a list of lists
RECURSIVE Join(_)
Join(lists) == IF lists = <<>> THEN <<>> ELSE Head(lists) \o Join(Tail(lists))

\* dict.items() after counting: the keys in first-insertion order, each with
\* its count
Bump(freq, w) ==
    IF \E i \in 1..Len(freq) : freq[i][1] = w
    THEN [i \in 1..Len(freq) |-> IF freq[i][1] = w THEN <<w, freq[i][2] + 1>> ELSE freq[i]]
    ELSE Append(freq, <<w, 1>>)

RECURSIVE CountInto(_, _)
CountInto(freq, ws) ==
    IF ws = <<>> THEN freq ELSE CountInto(Bump(freq, Head(ws)), Tail(ws))

\* sorted(items, key=lambda x: x[1], reverse=True): stable, so items of equal
\* count keep their order
\* an item put before the items of equal count: the sort is not stable
RECURSIVE InsertByCountUnstable(_, _)
InsertByCountUnstable(sorted, x) ==
    IF sorted = <<>> THEN <<x>>
    ELSE IF Head(sorted)[2] > x[2]
         THEN <<Head(sorted)>> \o InsertByCountUnstable(Tail(sorted), x)
    ELSE <<x>> \o sorted

RECURSIVE InsertByCount(_, _)
InsertByCount(sorted, x) ==
    IF sorted = <<>> THEN <<x>>
    ELSE IF Head(sorted)[2] >= x[2] THEN <<Head(sorted)>> \o InsertByCount(Tail(sorted), x)
    ELSE <<x>> \o sorted

RECURSIVE SortByCountInto(_, _)
SortByCountInto(sorted, items) ==
    IF items = <<>> THEN sorted
    ELSE SortByCountInto(InsertByCount(sorted, Head(items)), Tail(items))

SortedByCountDesc(items) == SortByCountInto(<<>>, items)

\* list.sort() of numbers
RECURSIVE InsertAsc(_, _)
InsertAsc(sorted, x) ==
    IF sorted = <<>> THEN <<x>>
    ELSE IF Head(sorted) <= x THEN <<Head(sorted)>> \o InsertAsc(Tail(sorted), x)
    ELSE <<x>> \o sorted

RECURSIVE SortAscInto(_, _)
SortAscInto(sorted, xs) ==
    IF xs = <<>> THEN sorted ELSE SortAscInto(InsertAsc(sorted, Head(xs)), Tail(xs))

RECURSIVE Sum(_)
Sum(xs) == IF xs = <<>> THEN 0 ELSE Head(xs) + Sum(Tail(xs))

-----------------------------------------------------------------------------
(* The text analyzer.  A text is the sequence of tokens word_tokenize yields *)
(* for it, so joining texts with ' ' and tokenizing concatenates them.      *)

TopWordsLimit == 20
TopSubredditsLimit == 10

\* the entries of stopwords.words('english') that the vocabulary holds
StopWords == {"because", "the"}

\* str.lower on the vocabulary
Lower(w) == IF w = "Python" THEN "python" ELSE w

\* str.isalnum on the vocabulary
IsAlnum(w) == w \notin {",", "don't"}

\* the filter of the list comprehension
Retained(w) == IsAlnum(w) /\ w \notin StopWords /\ Len(w) > 3

TokenizeLower(texts) == LET ts == Join(texts) IN [i \in 1..Len(ts) |-> Lower(ts[i])]

\* the slice left out
TopWordsUncut(word_freq) == SortedByCountDesc(word_freq)

TopWords(word_freq) == Take(SortedByCountDesc(word_freq), TopWordsLimit)

extract_topics_and_interests(texts) ==
    LET words == SelectSeq(TokenizeLower(texts), Retained)
        word_freq == CountInto(<<>>, words)
    IN [top_words |-> TopWords(word_freq),
        total_words |-> Len(words),
        unique_words |-> Len(word_freq)]

\* sum(time_diffs) / len(time_diffs), kept as an exact fraction
Fraction(n, d) == [num |-> n, den |-> d]

\* the two guards left out: the sum is divided by the number of gaps even
\* when there is none
AvgTimeBetweenUnguarded(ps) ==
    LET post_times == SortAscInto(<<>>, [i \in 1..Len(ps) |-> ps[i].created_utc])
        time_diffs == [i \in 1..(Len(post_times) - 1) |-> post_times[i+1] - post_times[i]]
    IN Fraction(Sum(time_diffs), Len(time_diffs))

AvgTimeBetween(ps) ==
    IF ps # <<>>
    THEN LET post_times == SortAscInto(<<>>, [i \in 1..Len(ps) |-> ps[i].created_utc])
             time_diffs == [i \in 1..(Len(post_times) - 1) |-> post_times[i+1] - post_times[i]]
         IN IF time_diffs # <<>> THEN Fraction(Sum(time_diffs), Len(time_diffs))
            ELSE Fraction(0, 1)
    ELSE Fraction(0, 1)

TopSubreddits(subreddit_counts) ==
    Take(SortedByCountDesc(subreddit_counts), TopSubredditsLimit)

analyze_user_activity_patterns(ud) ==
    LET ps == Get(ud, "posts", <<>>)
        cs == Get(ud, "comments", <<>>)
        subreddit_counts ==
            CountInto(CountInto(<<>>, [i \in 1..Len(ps) |-> ps[i].subreddit]),
                      [i \in 1..Len(cs) |-> cs[i].subreddit])
    IN [avg_time_between_posts |-> AvgTimeBetween(ps),
        top_subreddits |-> TopSubreddits(subreddit_counts),
        total_subreddits |-> Len(subreddit_counts),
        post_count |-> Len(ps),
        comment_count |-> Len(cs)]

-----------------------------------------------------------------------------
(* The citation extractor *)

PostScoreThreshold == 10
CommentScoreThreshold == 5

\* >= for >
HighScoringPostInclusive(post) == post.score >= PostScoreThreshold

HighScoringPost(post) == post.score > PostScoreThreshold

\* the posts' threshold used for the comments
HighScoringCommentAsPost(comment) == comment.score > PostScoreThreshold

HighScoringComment(comment) == comment.score > CommentScoreThreshold

ExcerptLimit == 100

\* the characters of a text: its tokens, one space between two
RECURSIVE Str(_)
Str(text) ==
    IF text = <<>> THEN ""
    ELSE IF Len(text) = 1 THEN Head(text)
    ELSE Head(text) \o " " \o Str(Tail(text))

\* the ellipsis added only to a text that was cut
ExcerptEllipsisWhenCut(chars) ==
    IF Len(chars) > ExcerptLimit THEN Take(chars, ExcerptLimit) \o "..." ELSE chars

\* text[:100] + "..."
Excerpt(chars) == Take(chars, ExcerptLimit) \o "..."

\* f"https://reddit.com{permalink}"
CitationUrl(permalink) == <<"https://reddit.com">> \o permalink

PostCitation(post) ==
    [type |-> "post", content |-> Excerpt(Str(post.title)),
     url |-> CitationUrl(post.permalink), score |-> post.score]

CommentCitation(comment) ==
    [type |-> "comment", content |-> Excerpt(Str(comment.body)),
     url |-> CitationUrl(comment.permalink), score |-> comment.score]

PostCitations(ps) == [i \in 1..Len(ps) |-> PostCitation(ps[i])]
CommentCitations(cs) == [i \in 1..Len(cs) |-> CommentCitation(cs[i])]

generate_citations(ud) ==
    [personality_traits |-> <<>>,
     interests |-> PostCitations(SelectSeq(Get(ud, "posts", <<>>), HighScoringPost)),
     communication_style |->
        CommentCitations(SelectSeq(Get(ud, "comments", <<>>), HighScoringComment)),
     behavior_patterns |-> <<>>,
     values_beliefs |-> <<>>]
-----------------------------------------------------------------------------
(* The remote API: what the submission and comment iterators yield *)

WordList ==
    <<"alpha", "bravo", "charlie", "delta", "echo", "foxtrot", "golf", "hotel",
      "india", "juliett", "kilo", "lima", "mike", "november", "oscar", "papa",
      "quebec", "romeo", "sierra", "tango", "uniform", "victor", "whiskey",
      "xray", "yankee", "zulu">>

SubredditList ==
    <<"programming", "MachineLearning", "datascience", "python", "learnpython",
      "AskReddit", "science", "technology", "books", "movies", "music", "gaming",
      "space", "history">>

Wrap(i, n) == ((i - 1) % n) + 1

\* what reading a field of a remote item does: every field reads ("none"),
\* a field other than the id raises ("field"), the id itself raises ("id")
Faults == {"none", "field", "id"}

\* the scores the items of a run carry: one below both thresholds, one above
RunScores == {5, 11}

Submission(i, fault, score) ==
    [id |-> i, fault |-> fault,
     title |-> <<WordList[Wrap(i, Len(WordList))], "the">>,
     selftext |-> IF i % 2 = 0 THEN <<>> ELSE <<"python", ",", "code">>,
     subreddit |-> SubredditList[Wrap(i, Len(SubredditList))],
     score |-> score,
     created_utc |-> 1700000000 - i * 1000000,
     permalink |-> <<"/r/", SubredditList[Wrap(i, Len(SubredditList))], "/comments/", i>>]

Comment(i, fault, score) ==
    [id |-> i, fault |-> fault,
     body |-> <<"Python", WordList[Wrap(i + 1, Len(WordList))], "cat">>,
     subreddit |-> SubredditList[Wrap(i + 1, Len(SubredditList))],
     score |-> score,
     created_utc |-> 1698000000 - i * 1000000,
     permalink |-> <<"/r/", SubredditList[Wrap(i + 1, Len(SubredditList))], "/comments/c", i>>,
     parent_id |-> <<"parent", i>>]

\* the items the iterator may yield as its i-th: an item whose fields cannot
\* be read is never stored, so its score is left at 0
NextSubmissions(i) ==
    {Submission(i, "none", s) : s \in RunScores}
        \cup {Submission(i, f, 0) : f \in Faults \ {"none"}}

NextComments(i) ==
    {Comment(i, "none", s) : s \in RunScores}
        \cup {Comment(i, f, 0) : f \in Faults \ {"none"}}

\* PRAW's listing generator with limit=n yields n items at most
IteratorLimit(limit) == IF limit < MaxItems THEN limit ELSE MaxItems

-----------------------------------------------------------------------------
(* collect_user_data *)

post_data(submission) ==
    [id |-> submission.id, title |-> submission.title, selftext |-> submission.selftext,
     subreddit |-> submission.subreddit, score |-> submission.score,
     created_utc |-> submission.created_utc, permalink |-> submission.permalink,
     type |-> "post"]

comment_data(comment) ==
    [id |-> comment.id, body |-> comment.body, subreddit |-> comment.subreddit,
     score |-> comment.score, created_utc |-> comment.created_utc,
     permalink |-> comment.permalink, parent_id |-> comment.parent_id,
     type |-> "comment"]

\* list.insert(0, item) for list.append(item)
PrependItem(list, item) == <<item>> \o list

\* posts.append(post_data)
AppendItem(list, item) == Append(list, item)

\* if post_count >= max_posts: break
CapReached(list, cap) == Len(list) >= cap

\* the except clause of the loop body formats the item's id into the warning:
\* it completes when the id reads, and raises when the id does not
HandlerCompletes(item) == item.fault # "id"

user_info(name) == [username |-> name]

NoText == "<unbound>"
NoFile == <<[chunk |-> "no file"]>>

\* the state of a generator on which nothing runs
CollectIdle ==
    /\ lookups = 0 /\ yieldedPosts = <<>> /\ yieldedComments = <<>>
    /\ posts = <<>> /\ comments = <<>>
LlmIdle == attempt = 0 /\ outcomes = <<>> /\ sleeps = 0
ArgsIdle ==
    /\ reddit_url = <<>> /\ max_posts = 0 /\ max_comments = 0 /\ username = <<>>
    /\ account_exists = TRUE
AnalysisIdle ==
    all_texts = <<>> /\ topics_analysis = EmptyDict /\ activity_analysis = EmptyDict
OutIdle == persona_text = NoText /\ citations = EmptyDict
UrlIdle == url = <<>> /\ upc = "idle" /\ res1 = None /\ res2 = None

EnvVars ==
    {"REDDIT_CLIENT_ID", "REDDIT_CLIENT_SECRET", "REDDIT_USERNAME", "REDDIT_PASSWORD",
     "REDDIT_USER_AGENT", "GEMINI_API_KEY"}

\* a generator exists, built in an environment that holds every variable
MainIdle ==
    /\ environ = [v \in EnvVars |-> "value"]
    /\ missing_vars = <<>>
    /\ generator = "constructed"

Raise(e) == pc' = "raised" /\ err' = e

\* username = self.extract_username_from_url(reddit_url)
ExtractUsername ==
    /\ pc = "start"
    /\ LET r == extract_username_from_url(reddit_url)
       IN IF r.status = "ok"
          THEN username' = r.val /\ pc' = "lookup" /\ err' = err
          ELSE username' = username /\ Raise("ValueError: invalid url")
    /\ UNCHANGED <<mainVars, urlVars, selfVars, reddit_url, max_posts, max_comments,
                   account_exists, anaVars, outVars, collectVars, llmVars, fileVars>>

\* the exception swallowed: except Exception: pass
UserCheckSwallowed(exists) == FALSE

\* try: redditor.id / except Exception: raise ValueError(...): reading the id
\* of an account that does not resolve raises
UserCheckRaises(exists) == ~exists

\* the snapshot cleared when the collection starts: self.user_data = {}
LookupUserClearsData ==
    /\ pc = "lookup"
    /\ lookups' = lookups + 1
    /\ user_data' = EmptyDict
    /\ IF UserCheckRaises(account_exists)
       THEN Raise("ValueError: user not found")
       ELSE pc' = "posts" /\ err' = err
    /\ UNCHANGED <<mainVars, urlVars, self_citations, argVars, anaVars, outVars,
                   yieldedPosts, yieldedComments, posts, comments, llmVars, fileVars>>

\* redditor = self.reddit.redditor(username); redditor.id; user_info = {...}
LookupUser ==
    /\ pc = "lookup"
    /\ lookups' = lookups + 1
    /\ IF UserCheckRaises(account_exists)
       THEN Raise("ValueError: user not found")
       ELSE pc' = "posts" /\ err' = err
    /\ UNCHANGED <<mainVars, urlVars, selfVars, argVars, anaVars, outVars, yieldedPosts,
                   yieldedComments, posts, comments, llmVars, fileVars>>

\* one iteration of `for submission in redditor.submissions.new(limit=max_posts)`
CollectPost(submission) ==
    /\ pc = "posts"
    /\ Len(yieldedPosts) < IteratorLimit(max_posts)
    /\ yieldedPosts' = Append(yieldedPosts, submission)
    /\ IF submission.fault = "none"
       THEN /\ posts' = AppendItem(posts, post_data(submission))
            /\ pc' = IF CapReached(posts', max_posts) THEN "comments" ELSE "posts"
            /\ err' = err
       ELSE IF HandlerCompletes(submission)
       THEN UNCHANGED <<posts, pc, err>>
       ELSE posts' = posts /\ Raise("item error")
    /\ UNCHANGED <<mainVars, urlVars, selfVars, argVars, anaVars, outVars, lookups,
                   yieldedComments, comments, llmVars, fileVars>>

\* the submission iterator is exhausted
PostsExhausted ==
    /\ pc = "posts"
    /\ pc' = "comments"
    /\ UNCHANGED <<mainVars, urlVars, err, selfVars, argVars, anaVars, outVars, collectVars,
                   llmVars, fileVars>>

\* the iterator's error swallowed: the run goes on to the analysis
IteratorRaisesSwallowed ==
    /\ pc \in {"posts", "comments"}
    /\ pc' = "analyze"
    /\ UNCHANGED <<mainVars, urlVars, err, selfVars, argVars, anaVars, outVars,
                   collectVars, llmVars, fileVars>>

\* the submission or comment iterator raises (a failed request)
IteratorRaises ==
    /\ pc \in {"posts", "comments"}
    /\ Raise("iterator error")
    /\ UNCHANGED <<mainVars, urlVars, selfVars, argVars, anaVars, outVars, collectVars,
                   llmVars, fileVars>>

\* self.user_data = {...}; return self.user_data
CollectedData(cs) == [user_info |-> user_info(username), posts |-> posts, comments |-> cs]

\* one iteration of `for comment in redditor.comments.new(limit=max_comments)`;
\* leaving the loop stores the snapshot
CollectComment(comment) ==
    /\ pc = "comments"
    /\ Len(yieldedComments) < IteratorLimit(max_comments)
    /\ yieldedComments' = Append(yieldedComments, comment)
    /\ IF comment.fault = "none"
       THEN /\ comments' = AppendItem(comments, comment_data(comment))
            /\ IF CapReached(comments', max_comments)
               THEN pc' = "analyze" /\ user_data' = CollectedData(comments')
               ELSE pc' = "comments" /\ user_data' = user_data
            /\ err' = err
       ELSE IF HandlerCompletes(comment)
       THEN UNCHANGED <<comments, pc, err, user_data>>
       ELSE comments' = comments /\ user_data' = user_data /\ Raise("item error")
    /\ UNCHANGED <<mainVars, urlVars, self_citations, argVars, anaVars, outVars, lookups,
                   yieldedPosts, posts, llmVars, fileVars>>

\* the comment iterator is exhausted: the snapshot is stored
CommentsExhausted ==
    /\ pc = "comments"
    /\ pc' = "analyze"
    /\ user_data' = CollectedData(comments)
    /\ UNCHANGED <<mainVars, urlVars, err, self_citations, argVars, anaVars, outVars,
                   collectVars, llmVars, fileVars>>

-----------------------------------------------------------------------------
(* generate_persona: the analysis *)

\* all_texts: each post's title, its selftext when not empty, each comment's body
RECURSIVE PostTexts(_)
PostTexts(ps) ==
    IF ps = <<>> THEN <<>>
    ELSE (IF Head(ps).selftext # <<>> THEN <<Head(ps).title, Head(ps).selftext>>
          ELSE <<Head(ps).title>>) \o PostTexts(Tail(ps))

AllTexts(ud) ==
    LET cs == Get(ud, "comments", <<>>)
    IN PostTexts(Get(ud, "posts", <<>>)) \o [i \in 1..Len(cs) |-> cs[i].body]

analysis_data == Merge(topics_analysis, activity_analysis)

Analyze ==
    /\ pc = "analyze"
    /\ all_texts' = AllTexts(user_data)
    /\ topics_analysis' = extract_topics_and_interests(all_texts')
    /\ activity_analysis' = analyze_user_activity_patterns(user_data)
    /\ pc' = "llm"
    /\ UNCHANGED <<mainVars, urlVars, err, selfVars, argVars, outVars, collectVars, llmVars,
                   fileVars>>

-----------------------------------------------------------------------------
(* generate_persona_with_llm *)

max_retries == 3

\* what one generate_content call does: it returns text, returns an empty
\* response, or raises
LlmOutcomes == {"text", "empty", "exception"}

\* off by one: if attempt == max_retries
IsLastAttemptOffByOne(a) == a = max_retries

\* if attempt == max_retries - 1
IsLastAttempt(a) == a = max_retries - 1

\* one iteration of `for attempt in range(max_retries)`
AttemptLLM(outcome) ==
    /\ pc = "llm"
    /\ attempt < max_retries
    /\ outcomes' = Append(outcomes, outcome)
    /\ IF outcome = "text"
       THEN /\ persona_text' = "persona text"
            /\ pc' = "cite"
            /\ UNCHANGED <<attempt, sleeps, err>>
       ELSE IF IsLastAttempt(attempt)
       THEN /\ Raise(IF outcome = "empty" THEN "ValueError: empty response"
                     ELSE "generation error")
            /\ UNCHANGED <<attempt, sleeps, persona_text>>
       ELSE /\ sleeps' = sleeps + 1
            /\ attempt' = attempt + 1
            /\ pc' = IF attempt' < max_retries THEN "llm" ELSE "cite"
            /\ UNCHANGED <<persona_text, err>>
    /\ UNCHANGED <<mainVars, urlVars, selfVars, argVars, anaVars, citations, collectVars, fileVars>>

\* the citations kept on the object as well: self.citations = citations
CiteStoresCitations ==
    /\ pc = "cite"
    /\ citations' = generate_citations(user_data)
    /\ self_citations' = citations'
    /\ IF persona_text = NoText
       THEN Raise("UnboundLocalError")
       ELSE pc' = "save" /\ err' = err
    /\ UNCHANGED <<mainVars, urlVars, user_data, argVars, anaVars, persona_text,
                   collectVars, llmVars, fileVars>>

\* citations = self._generate_citations(); return persona_text, citations.
\* persona_text is bound by the iteration that breaks; a loop that ran out
\* without binding it would make the return raise
Cite ==
    /\ pc = "cite"
    /\ citations' = generate_citations(user_data)
    /\ IF persona_text = NoText
       THEN Raise("UnboundLocalError")
       ELSE pc' = "save" /\ err' = err
    /\ UNCHANGED <<mainVars, urlVars, selfVars, argVars, anaVars, persona_text, collectVars,
                   llmVars, fileVars>>

-----------------------------------------------------------------------------
(* save_persona_to_file *)

\* what the f.write calls put in the file, in order
ReportChunks(name, text, cits, analysis) ==
    << [chunk |-> "header", username |-> name],
       [chunk |-> "USER PERSONA"],
       [chunk |-> "persona", text |-> text],
       [chunk |-> "ANALYSIS DATA"],
       [chunk |-> "analysis",
        post_count |-> Get(analysis, "post_count", 0),
        comment_count |-> Get(analysis, "comment_count", 0),
        total_subreddits |-> Get(analysis, "total_subreddits", 0),
        top_subreddits |-> Take(Get(analysis, "top_subreddits", <<>>), 10),
        top_words |-> Take(Get(analysis, "top_words", <<>>), 15)],
       [chunk |-> "CITATIONS"],
       [chunk |-> "citations",
        interests |-> Take(Get(cits, "interests", <<>>), 5),
        communication_style |-> Take(Get(cits, "communication_style", <<>>), 5)] >>

\* with open(filename, 'w', encoding='utf-8') as f: the file is created, or
\* open raises and nothing is
OpenReport(opened) ==
    /\ pc = "save"
    /\ IF opened
       THEN fs' = <<>> /\ pc' = "write" /\ err' = err
       ELSE fs' = fs /\ Raise("OSError: open")
    /\ UNCHANGED <<mainVars, urlVars, selfVars, argVars, anaVars, outVars, collectVars, llmVars>>

\* the next group of f.write calls: it is written, or the write raises and
\* the with statement closes the file as it is
WriteReport(written) ==
    /\ pc = "write"
    /\ LET chunks == ReportChunks(username, persona_text, citations, analysis_data)
       IN IF written
          THEN /\ fs' = Append(fs, chunks[Len(fs) + 1])
               /\ pc' = IF Len(fs') = Len(chunks) THEN "done" ELSE "write"
               /\ err' = err
          ELSE fs' = fs /\ Raise("OSError: write")
    /\ UNCHANGED <<mainVars, urlVars, selfVars, argVars, anaVars, outVars, collectVars, llmVars>>

-----------------------------------------------------------------------------
(* One run of generate_persona *)

RunUrls ==
    { <<"https:", "/", "/", "reddit.com", "/", "user", "/", "a", "/">>,
      <<"https:", "/", "/", "reddit.com", "/", "a">> }

Init ==
    /\ UrlIdle /\ MainIdle
    /\ pc = "start" /\ err = "none"
    /\ user_data = EmptyDict /\ self_citations = EmptyDict
    /\ reddit_url \in RunUrls
    /\ max_posts \in 1..MaxCap
    /\ max_comments \in 1..MaxCap
    /\ username = <<>>
    /\ account_exists \in BOOLEAN
    /\ AnalysisIdle /\ OutIdle /\ CollectIdle /\ LlmIdle
    /\ fs = NoFile

Next ==
    \/ ExtractUsername
    \/ LookupUser
    \/ \E s \in NextSubmissions(Len(yieldedPosts) + 1) : CollectPost(s)
    \/ PostsExhausted
    \/ IteratorRaises
    \/ \E c \in NextComments(Len(yieldedComments) + 1) : CollectComment(c)
    \/ CommentsExhausted
    \/ Analyze
    \/ \E outcome \in LlmOutcomes : AttemptLLM(outcome)
    \/ Cite
    \/ \E opened \in BOOLEAN : OpenReport(opened)
    \/ \E written \in BOOLEAN : WriteReport(written)

Spec == Init /\ [][Next]_vars

-----------------------------------------------------------------------------
(* One run of generate_persona on a generator that has run before *)

\* what an earlier run for another user has left in self.user_data
PreviousData ==
    [user_info |-> user_info(<<"a", "a">>),
     posts |-> <<post_data(Submission(1, "none", 11))>>,
     comments |-> <<comment_data(Comment(1, "none", 5))>>]

InitReuse ==
    /\ UrlIdle /\ MainIdle
    /\ pc = "start" /\ err = "none"
    /\ user_data = PreviousData /\ self_citations = EmptyDict
    /\ reddit_url \in RunUrls
    /\ max_posts \in 1..MaxCap
    /\ max_comments \in 1..MaxCap
    /\ username = <<>>
    /\ account_exists \in BOOLEAN
    /\ AnalysisIdle /\ OutIdle /\ CollectIdle /\ LlmIdle
    /\ fs = NoFile

SpecReuse == InitReuse /\ [][Next]_vars
-----------------------------------------------------------------------------
(* The normalizer applied to an input, then to its own output *)

InitUrl ==
    /\ url \in UrlInputs
    /\ upc = "input"
    /\ res1 = None
    /\ res2 = None
    /\ pc = "idle" /\ err = "none"
    /\ user_data = EmptyDict /\ self_citations = EmptyDict
    /\ ArgsIdle /\ AnalysisIdle /\ OutIdle /\ CollectIdle /\ LlmIdle
    /\ fs = NoFile
    /\ MainIdle

Normalize ==
    /\ upc = "input"
    /\ res1' = extract_username_from_url(url)
    /\ upc' = "once"
    /\ UNCHANGED <<url, res2, runVars>>

Renormalize ==
    /\ upc = "once"
    /\ res1.status = "ok"
    /\ res2' = extract_username_from_url(res1.val)
    /\ upc' = "twice"
    /\ UNCHANGED <<url, res1, runVars>>

NextUrl == Normalize \/ Renormalize

SpecUrl == InitUrl /\ [][NextUrl]_vars

-----------------------------------------------------------------------------
(* The analyzer's two methods applied to given inputs *)

SmallVocabulary == {"python", "Python", "code", "cat", "because", ","}

\* one text of up to MaxTextLen tokens of the small vocabulary, or two texts:
\* the first k words of the list, then the words i..j of them once more
TextInputs ==
    {<<>>}
      \cup {<<t>> : t \in StringsUpTo(SmallVocabulary, MaxTextLen)}
      \cup {<<SubSeq(WordList, 1, t[1]), SubSeq(WordList, t[2], t[3])>> :
              t \in {x \in (0..MaxDistinct) \X (1..MaxDistinct) \X (0..MaxDistinct) :
                       x[2] <= x[3] + 1 /\ x[3] <= x[1]}}

\* a snapshot of p posts and c comments spread over the first m subreddits
ActivityData(p, c, m) ==
    [user_info |-> user_info(<<"a">>),
     posts |-> [i \in 1..p |->
        [post_data(Submission(i, "none", 11)) EXCEPT !.subreddit = SubredditList[Wrap(i, m)]]],
     comments |-> [j \in 1..c |->
        [comment_data(Comment(j, "none", 11)) EXCEPT
            !.subreddit = SubredditList[Wrap(p + j, m)]]]]

ActivityInputs ==
    {EmptyDict} \cup
    {ActivityData(p, c, m) : p \in 0..MaxActPosts, c \in 0..MaxActComments, m \in 1..MaxSubs}

LargestTexts == <<SubSeq(WordList, 1, MaxDistinct), <<>>>>
LargestActivity == ActivityData(MaxActPosts, MaxActComments, MaxSubs)

\* no text at all, with the snapshot of a fresh generator and with a snapshot
\* of no posts and no comments
EmptyInputs == {<<<<>>, EmptyDict>>, <<<<>>, ActivityData(0, 0, 1)>>}

AnalyzeInputs ==
    (TextInputs \X {LargestActivity}) \cup ({LargestTexts} \X ActivityInputs)
        \cup EmptyInputs

InitAnalyze ==
    /\ UrlIdle /\ MainIdle
    /\ pc = "call extract_topics_and_interests" /\ err = "none"
    /\ \E input \in AnalyzeInputs : all_texts = input[1] /\ user_data = input[2]
    /\ topics_analysis = EmptyDict /\ activity_analysis = EmptyDict
    /\ self_citations = EmptyDict
    /\ ArgsIdle /\ OutIdle /\ CollectIdle /\ LlmIdle
    /\ fs = NoFile

CallExtractTopics ==
    /\ pc = "call extract_topics_and_interests"
    /\ topics_analysis' = extract_topics_and_interests(all_texts)
    /\ pc' = "call analyze_user_activity_patterns"
    /\ UNCHANGED <<mainVars, urlVars, err, selfVars, argVars, all_texts, activity_analysis, outVars,
                   collectVars, llmVars, fileVars>>

CallAnalyzeActivity ==
    /\ pc = "call analyze_user_activity_patterns"
    /\ activity_analysis' = analyze_user_activity_patterns(user_data)
    /\ pc' = "returned"
    /\ UNCHANGED <<mainVars, urlVars, err, selfVars, argVars, all_texts, topics_analysis, outVars,
                   collectVars, llmVars, fileVars>>

NextAnalyze == CallExtractTopics \/ CallAnalyzeActivity

SpecAnalyze == InitAnalyze /\ [][NextAnalyze]_vars

-----------------------------------------------------------------------------
(* The citation extractor applied to a given snapshot *)

\* scores at, between and above the two thresholds, and those of the example
\* data of test_example.py
PostScores == {6, 10, 11, 89, 127}
CommentScores == {5, 6, 8, 10, 15}

ScoredData(postScores, commentScores) ==
    [user_info |-> user_info(<<"a">>),
     posts |-> [i \in 1..Len(postScores) |-> post_data(Submission(i, "none", postScores[i]))],
     comments |->
        [i \in 1..Len(commentScores) |-> comment_data(Comment(i, "none", commentScores[i]))]]

\* texts of up to MaxExcerptWords words and one more token: their lengths
\* lie below, at and above the excerpt limit
ExcerptTails == {"a", "at", "cat", "code", "python"}
ExcerptTexts ==
    {SubSeq(WordList, 1, k) \o <<t>> : k \in 0..MaxExcerptWords, t \in ExcerptTails}

\* a cited post and a cited comment of the given title and body
TitledData(title, body) ==
    [user_info |-> user_info(<<"a">>),
     posts |-> <<[post_data(Submission(1, "none", 11)) EXCEPT !.title = title]>>,
     comments |-> <<[comment_data(Comment(1, "none", 6)) EXCEPT !.body = body]>>]

CitationInputs ==
    {ScoredData(ps, cs) : ps \in StringsUpTo(PostScores, MaxScored),
                          cs \in StringsUpTo(CommentScores, MaxScored)}
      \cup {TitledData(t, <<"Python", "cat">>) : t \in ExcerptTexts}
      \cup {TitledData(<<"alpha", "the">>, t) : t \in ExcerptTexts}

InitCite ==
    /\ UrlIdle /\ MainIdle
    /\ pc = "call _generate_citations" /\ err = "none"
    /\ user_data \in CitationInputs
    /\ self_citations = EmptyDict
    /\ ArgsIdle /\ AnalysisIdle /\ OutIdle /\ CollectIdle /\ LlmIdle
    /\ fs = NoFile

CallGenerateCitations ==
    /\ pc = "call _generate_citations"
    /\ citations' = generate_citations(user_data)
    /\ pc' = "returned"
    /\ UNCHANGED <<mainVars, urlVars, err, selfVars, argVars, anaVars, persona_text, collectVars,
                   llmVars, fileVars>>

NextCite == CallGenerateCitations

SpecCite == InitCite /\ [][NextCite]_vars
-----------------------------------------------------------------------------
(* main *)

required_vars == <<"REDDIT_CLIENT_ID", "REDDIT_CLIENT_SECRET", "GEMINI_API_KEY">>

\* not os.getenv(var)
NotSet(env, var) == env[var] \in {"unset", ""}

\* [var for var in vs if not os.getenv(var)]
RECURSIVE MissingAmong(_, _)
MissingAmong(vs, env) ==
    IF vs = <<>> THEN <<>>
    ELSE (IF NotSet(env, Head(vs)) THEN <<Head(vs)>> ELSE <<>>)
            \o MissingAmong(Tail(vs), env)

\* the defaults of generate_persona's parameters
DefaultMaxPosts == 50
DefaultMaxComments == 100

\* what the user types at the prompt
TypedInputs ==
    {<<>>, <<" ">>} \cup RunUrls \cup {<<" ">> \o u \o <<" ">> : u \in RunUrls}

\* the required variables are tested: the missing ones are printed and
\* main returns
CheckEnvironment ==
    /\ pc = "main"
    /\ missing_vars' = MissingAmong(required_vars, environ)
    /\ pc' = IF missing_vars' # <<>> THEN "returned" ELSE "construct"
    /\ UNCHANGED <<environ, generator, err, urlVars, selfVars, argVars, anaVars, outVars,
                   collectVars, llmVars, fileVars>>

\* generator = RedditPersonaGenerator(): the two clients are built and the
\* test request is made, or one of them raises and main prints the error
ConstructGenerator(built) ==
    /\ pc = "construct"
    /\ IF built
       THEN generator' = "constructed" /\ pc' = "input" /\ err' = err
       ELSE generator' = generator /\ pc' = "returned" /\ err' = "initialization error"
    /\ UNCHANGED <<environ, missing_vars, urlVars, selfVars, argVars, anaVars, outVars,
                   collectVars, llmVars, fileVars>>

\* reddit_url = input(...).strip(); an empty one is reported and main
\* returns, any other is handed to generator.generate_persona(reddit_url)
ReadInput(typed) ==
    /\ pc = "input"
    /\ reddit_url' = StripTok(typed, " ")
    /\ pc' = IF reddit_url' = <<>> THEN "returned" ELSE "start"
    /\ UNCHANGED <<mainVars, urlVars, err, selfVars, max_posts, max_comments, username,
                   account_exists, anaVars, outVars, collectVars, llmVars, fileVars>>

\* generate_persona has returned the file name, or raised: main prints the
\* one or the other and returns
MainReturns ==
    /\ pc \in {"done", "raised"}
    /\ pc' = "returned"
    /\ UNCHANGED <<mainVars, urlVars, err, selfVars, argVars, anaVars, outVars,
                   collectVars, llmVars, fileVars>>

InitMain ==
    /\ UrlIdle
    /\ pc = "main" /\ err = "none"
    /\ environ \in [EnvVars -> {"unset", "", "value"}]
    /\ missing_vars = <<>>
    /\ generator = "none"
    /\ user_data = EmptyDict /\ self_citations = EmptyDict
    /\ reddit_url = <<>> /\ username = <<>>
    /\ max_posts = DefaultMaxPosts /\ max_comments = DefaultMaxComments
    /\ account_exists \in BOOLEAN
    /\ AnalysisIdle /\ OutIdle /\ CollectIdle /\ LlmIdle
    /\ fs = NoFile

NextMain ==
    \/ CheckEnvironment
    \/ \E built \in BOOLEAN : ConstructGenerator(built)
    \/ \E typed \in TypedInputs : ReadInput(typed)
    \/ Next
    \/ MainReturns

SpecMain == InitMain /\ [][NextMain]_vars

-----------------------------------------------------------------------------
(* Properties *)

AfterLlmLoop == {"cite", "save", "write", "done"}

\* C1: the generative API is called at most 3 times; no call follows one that
\* returned non-empty text, so the loop is left at the first success; and
\* after 3 attempts that were empty or raised the method has raised.
C1_RetryBound ==
    /\ Len(outcomes) <= 3
    /\ \A i \in 1..(Len(outcomes) - 1) : outcomes[i] # "text"
    /\ (outcomes # <<>> /\ outcomes[Len(outcomes)] = "text") => pc # "llm"
    /\ pc \in AfterLlmLoop => (outcomes # <<>> /\ outcomes[Len(outcomes)] = "text")
    /\ (Len(outcomes) = 3 /\ outcomes[3] # "text") =>
          (pc = "raised" /\ err \in {"ValueError: empty response", "generation error"})

\* three failed attempts of both kinds, and the method has raised
C1_Witness ==
    /\ outcomes = <<"exception", "empty", "empty">>
    /\ pc = "raised"
    /\ err = "ValueError: empty response"

\* C2: whenever generate_persona raises, no report file of the run exists.
C2_NoFileAfterFailure == pc = "raised" => fs = NoFile

Readable(item) == item.fault = "none"
PostsOf(yielded) == [i \in 1..Len(yielded) |-> post_data(yielded[i])]
CommentsOf(yielded) == [i \in 1..Len(yielded) |-> comment_data(yielded[i])]

\* C5: an item whose field extraction raises is left out, the error does not
\* leave collect_user_data, and the other items yielded are collected,
\* whichever field raises.
C5_ItemErrorsSkipped ==
    /\ err # "item error"
    /\ pc \in {"posts", "comments", "analyze"} =>
          posts = PostsOf(SelectSeq(yieldedPosts, Readable))
    /\ pc \in {"comments", "analyze"} =>
          comments = CommentsOf(SelectSeq(yieldedComments, Readable))

\* the forms of each username: bare, prefixed, full URL
ShapesOf == [n \in Usernames |-> {n} \cup ShortShapes(n) \cup FullUrls(n)]

\* C6: a bare username, its four prefixed forms and its full URLs (with or
\* without a trailing slash or further segments) all normalize to the
\* username, and normalizing that output again returns it unchanged.
C6_UsernameShapesNormalize ==
    \A n \in Usernames :
        url \in ShapesOf[n] =>
            /\ upc \in {"once", "twice"} => res1 = Ok(n)
            /\ upc = "twice" => res2 = res1

\* the full URL with a trailing slash, normalized twice
C6_Witness ==
    /\ url = <<"https:", "/", "/", "reddit.com", "/", "user", "/", "a", "/">>
    /\ upc = "twice"
    /\ res1 = Ok(<<"a">>)
    /\ res2 = Ok(<<"a">>)

\* whether text p, read as a path, is 'user/<name>' or 'u/<name>', with
\* further segments or not
ProfilePath(p) ==
    LET parts == Split(LStrip(p, "/"), "/")
    IN Len(parts) >= 2 /\ parts[1] \in {<<"user">>, <<"u">>} /\ parts[2] # <<>>

\* the input read as a path in each way it can be: as a whole, from the host
\* marker on, and as urlparse cuts it
HasProfilePath(s) ==
    \/ ProfilePath(s)
    \/ ProfilePath(SubSeq(s, Find(s, "reddit.com") + 1, Len(s)))
    \/ ProfilePath(UrlPath(s))

\* C7: an input that contains 'reddit.com' and has no path of the form
\* 'user/<name>' or 'u/<name>' fails with the invalid-input error.
C7_InvalidUrlRejected ==
    (upc \in {"once", "twice"}
        /\ Contains(url, "reddit.com") /\ ~HasProfilePath(StripTok(url, " ")))
      => res1 = Raised("ValueError")

\* a is b with some elements left out, the others in the same order
IsSubsequence(a, b) ==
    \E f \in [1..Len(a) -> 1..Len(b)] :
        /\ \A i \in 1..Len(a) : a[i] = b[f[i]]
        /\ \A i, j \in 1..Len(a) : i < j => f[i] < f[j]

\* C8: the snapshot collect_user_data stores holds at most max_posts posts and
\* max_comments comments, each list a subsequence of what the iterator yielded.
C8_CappedSubsequence ==
    user_data # EmptyDict =>
        /\ Len(user_data.posts) <= max_posts
        /\ Len(user_data.comments) <= max_comments
        /\ IsSubsequence(user_data.posts, PostsOf(yieldedPosts))
        /\ IsSubsequence(user_data.comments, CommentsOf(yieldedComments))

\* a post was skipped, one was kept, and the comments reached their cap
C8_Witness ==
    /\ pc = "analyze"
    /\ Len(yieldedPosts) > Len(user_data.posts)
    /\ Len(user_data.posts) >= 1
    /\ Len(user_data.comments) = max_comments
    /\ max_comments > 1

\* C9: when the user lookup errors, collect_user_data fails with the
\* user-not-found error after one lookup, nothing is fetched, and the run
\* ends there: no LLM call, no report file.
C9_LookupFailurePropagates ==
    (~account_exists /\ pc \notin {"start", "lookup"} /\ err # "ValueError: invalid url") =>
        /\ pc = "raised"
        /\ err = "ValueError: user not found"
        /\ lookups = 1
        /\ yieldedPosts = <<>> /\ yieldedComments = <<>>
        /\ user_data = EmptyDict
        /\ outcomes = <<>>
        /\ fs = NoFile

\* the lookup of a missing account has failed
C9_Witness == ~account_exists /\ lookups = 1 /\ pc = "raised"

IsExample(ud) ==
    /\ Len(ud.posts) = 2 /\ ud.posts[1].score = 127 /\ ud.posts[2].score = 89
    /\ Len(ud.comments) = 2 /\ ud.comments[1].score = 15 /\ ud.comments[2].score = 8

\* C3 as stated: for posts scored 127 and 89 and comments scored 15 and 8 the
\* extractor yields 1 'interests' citation and 2 'communication_style' ones.
C3_ExampleAsStated ==
    (pc = "returned" /\ IsExample(user_data)) =>
        /\ Len(citations.interests) = 1
        /\ Len(citations.communication_style) = 2

\* C3 amended: for posts scored 127 and 89 and comments scored 15 and 8 the
\* extractor yields 2 'interests' citations and 2 'communication_style' ones.
C3_ExampleCitations ==
    (pc = "returned" /\ IsExample(user_data)) =>
        /\ Len(citations.interests) = 2
        /\ Len(citations.communication_style) = 2

\* the example snapshot, cited
C3_Witness ==
    /\ pc = "returned" /\ IsExample(user_data)
    /\ Len(citations.interests) = 2

\* the k-th smallest member of a set of indices
Kth(S, k) == CHOOSE i \in S : Cardinality({j \in S : j < i}) = k - 1

\* cites holds one citation of the given type per index of cited, in order,
\* each with the item's score and permalink
CitesExactly(cites, items, cited, type) ==
    /\ Len(cites) = Cardinality(cited)
    /\ \A k \in 1..Len(cites) :
          /\ cites[k].type = type
          /\ cites[k].score = items[Kth(cited, k)].score
          /\ Tail(cites[k].url) = items[Kth(cited, k)].permalink

\* C4: one 'interests' citation per post scored above 10, one
\* 'communication_style' citation per comment scored above 5, each with the
\* item's score, and no other citation.
C4_CitationsByThreshold ==
    pc = "returned" =>
        /\ CitesExactly(citations.interests, user_data.posts,
                        {i \in 1..Len(user_data.posts) : user_data.posts[i].score >= 11},
                        "post")
        /\ CitesExactly(citations.communication_style, user_data.comments,
                        {i \in 1..Len(user_data.comments) : user_data.comments[i].score >= 6},
                        "comment")
        /\ citations.personality_traits = <<>>
        /\ citations.behavior_patterns = <<>>
        /\ citations.values_beliefs = <<>>

\* a post at the threshold beside one above it, a comment at the threshold
\* beside one above it
C4_Witness ==
    /\ pc = "returned"
    /\ Len(user_data.posts) = 2 /\ Len(user_data.comments) = 2
    /\ user_data.posts[1].score = 10 /\ user_data.posts[2].score = 11
    /\ user_data.comments[1].score = 6 /\ user_data.comments[2].score = 5
    /\ Len(citations.interests) = 1 /\ citations.interests[1].score = 11
    /\ Len(citations.communication_style) = 1 /\ citations.communication_style[1].score = 6

\* C10: top_words never has more than 20 entries nor top_subreddits more
\* than 10.
C10_TopListsCapped ==
    /\ Len(Get(topics_analysis, "top_words", <<>>)) <= 20
    /\ Len(Get(activity_analysis, "top_subreddits", <<>>)) <= 10

\* more than 20 distinct words and more than 10 subreddits went in
C10_Witness ==
    /\ pc = "returned"
    /\ topics_analysis.unique_words > 20 /\ Len(topics_analysis.top_words) = 20
    /\ activity_analysis.total_subreddits > 10 /\ Len(activity_analysis.top_subreddits) = 10

\* a snapshot without posts and without comments
NoActivity(ud) == Get(ud, "posts", <<>>) = <<>> /\ Get(ud, "comments", <<>>) = <<>>

\* C11: on empty input the analyzer does not raise; for no texts it returns
\* top_words = [], total_words = 0 and unique_words = 0, and for a snapshot
\* without posts and comments it returns top_subreddits = [],
\* total_subreddits = 0, post_count = 0, comment_count = 0 and an average
\* gap of 0 (the fraction 0/1).
C11_EmptyInputAnalyzed ==
    /\ err = "none"
    /\ (pc # "call extract_topics_and_interests" /\ all_texts = <<>>) =>
          topics_analysis = [top_words |-> <<>>, total_words |-> 0, unique_words |-> 0]
    /\ (pc = "returned" /\ NoActivity(user_data)) =>
          activity_analysis =
              [avg_time_between_posts |-> Fraction(0, 1), top_subreddits |-> <<>>,
               total_subreddits |-> 0, post_count |-> 0, comment_count |-> 0]

\* both methods have returned for a fresh generator and no texts
C11_Witness ==
    /\ pc = "returned"
    /\ all_texts = <<>> /\ user_data = EmptyDict
    /\ topics_analysis.total_words = 0
    /\ activity_analysis.post_count = 0

\* content is the first 100 characters of chars, all of them when there are
\* fewer, followed by '...'
IsExcerptOf(content, chars) ==
    LET n == IF Len(chars) < 100 THEN Len(chars) ELSE 100
    IN /\ Len(content) = n + 3
       /\ SubSeq(content, 1, n) = SubSeq(chars, 1, n)
       /\ SubSeq(content, n + 1, n + 3) = "..."
       /\ Len(content) <= 103

\* C12: every citation holds as content the first 100 characters of its
\* source text (the post's title, the comment's body) followed by '...', at
\* most 103 characters, and as url 'https://reddit.com' followed by the
\* item's stored permalink.
C12_ExcerptAndUrl ==
    pc = "returned" =>
        LET ps == SelectSeq(user_data.posts, HighScoringPost)
            cs == SelectSeq(user_data.comments, HighScoringComment)
        IN /\ Len(citations.interests) = Len(ps)
           /\ Len(citations.communication_style) = Len(cs)
           /\ \A k \in 1..Len(ps) :
                 /\ IsExcerptOf(citations.interests[k].content, Str(ps[k].title))
                 /\ citations.interests[k].url = <<"https://reddit.com">> \o ps[k].permalink
           /\ \A k \in 1..Len(cs) :
                 /\ IsExcerptOf(citations.communication_style[k].content, Str(cs[k].body))
                 /\ citations.communication_style[k].url =
                        <<"https://reddit.com">> \o cs[k].permalink

\* a title of more than 100 characters was cut to 103, beside a short body
C12_Witness ==
    /\ pc = "returned"
    /\ Len(user_data.posts) = 1 /\ Len(citations.interests) = 1
    /\ Len(Str(user_data.posts[1].title)) > 100
    /\ Len(citations.interests[1].content) = 103
    /\ Len(citations.communication_style) = 1
    /\ citations.communication_style[1].content = "Python cat..."

\* the positions of file f that hold a chunk of the given kind
ChunksAt(f, kind) == {i \in 1..Len(f) : f[i].chunk = kind}

\* file f holds the 'USER PERSONA' banner, then the LLM text as returned,
\* then the analytics, then the 'CITATIONS' banner, and citation entries
\* nowhere but after that banner
ReportLaidOut(f, text) ==
    /\ \E u \in ChunksAt(f, "USER PERSONA"), p \in ChunksAt(f, "persona"),
          a \in ChunksAt(f, "analysis"), c \in ChunksAt(f, "CITATIONS") :
            u < p /\ p < a /\ a < c /\ f[p].text = text
    /\ \A e \in ChunksAt(f, "citations") : \A c \in ChunksAt(f, "CITATIONS") : c < e

\* C13: every report file save_persona_to_file has written and closed holds
\* the 'USER PERSONA' banner and the 'CITATIONS' banner in that order, the
\* verbatim LLM text and the analytics between them, and the citation
\* entries only after the 'CITATIONS' banner.
C13_ReportLayout ==
    (fs # NoFile /\ pc \in {"done", "raised"}) => ReportLaidOut(fs, persona_text)

CredentialVars ==
    {"REDDIT_CLIENT_ID", "REDDIT_CLIENT_SECRET", "REDDIT_USERNAME", "REDDIT_PASSWORD",
     "GEMINI_API_KEY"}

Listed == {missing_vars[i] : i \in 1..Len(missing_vars)}

\* C14: once main has checked the environment, every unset variable among
\* the five credentials is listed as missing, main has returned without
\* constructing the generator whenever one of the five is unset, and
\* REDDIT_USER_AGENT is never listed.
C14_MissingCredentialsReported ==
    pc # "main" =>
        LET unset == {v \in CredentialVars : environ[v] = "unset"}
        IN /\ unset \subseteq Listed
           /\ unset # {} => (pc = "returned" /\ generator = "none")
           /\ "REDDIT_USER_AGENT" \notin Listed

\* generate_persona_with_llm is running, has returned, or has raised
LlmCalled ==
    \/ pc \in {"llm", "cite", "save"}
    \/ pc = "raised" /\ err \in {"ValueError: empty response", "generation error",
                                  "UnboundLocalError"}

\* C15: generate_persona_with_llm, its retry loop and its citation
\* extraction included, leaves self.user_data and self.citations as they
\* were when it was called (the snapshot collect_user_data stored, and {}),
\* whether it returns or raises.
C15_LlmLeavesStateUnchanged ==
    LlmCalled => (user_data = CollectedData(comments) /\ self_citations = EmptyDict)

\* the method has returned after a retry, with citations extracted
C15_Witness ==
    /\ pc = "save"
    /\ Len(outcomes) > 1
    /\ citations.interests # <<>>
    /\ self_citations = EmptyDict
    /\ user_data.posts # <<>>

\* C16: in the retry loop one sleep follows each failed attempt that is not
\* the last, whether it was an empty response or an exception, and none
\* follows a successful attempt or the final one: while another call is to
\* come every call so far was followed by a sleep, and once the loop is left
\* the number of sleeps is the number of API calls minus one.
C16_SleepBetweenAttempts ==
    /\ pc = "llm" => sleeps = Len(outcomes)
    /\ (pc # "llm" /\ outcomes # <<>>) => sleeps = Len(outcomes) - 1
    /\ outcomes = <<>> => sleeps = 0

\* an empty response and an exception, one sleep after each, then text
C16_Witness ==
    /\ outcomes = <<"empty", "exception", "text">>
    /\ sleeps = 2
    /\ pc = "cite"

\* the retained tokens of the concatenated input, in order
RetainedWords == SelectSeq(TokenizeLower(all_texts), Retained)

\* how often w occurs in ws, and where it occurs first
Frequency(w, ws) == Cardinality({i \in 1..Len(ws) : ws[i] = w})
FirstOccurrence(w, ws) == CHOOSE i \in 1..Len(ws) : ws[i] = w /\ \A j \in 1..(i - 1) : ws[j] # w

\* C17: top_words lists retained tokens with their frequencies, in order of
\* non-increasing frequency; no retained token left out is more frequent than
\* one listed; and of two listed tokens of equal frequency the one that
\* occurs first in the concatenated input comes first.
C17_TopWordsOrdered ==
    pc # "call extract_topics_and_interests" =>
        LET tw == topics_analysis.top_words
            ws == RetainedWords
            listed == {tw[i][1] : i \in 1..Len(tw)}
        IN /\ \A i \in 1..Len(tw) : tw[i][2] = Frequency(tw[i][1], ws) /\ tw[i][2] > 0
           /\ \A i, j \in 1..Len(tw) : i < j => tw[i][2] >= tw[j][2]
           /\ \A i \in 1..Len(ws) : ws[i] \notin listed =>
                 \A k \in 1..Len(tw) : Frequency(ws[i], ws) <= tw[k][2]
           /\ \A i, j \in 1..Len(tw) : (i < j /\ tw[i][2] = tw[j][2]) =>
                 FirstOccurrence(tw[i][1], ws) < FirstOccurrence(tw[j][1], ws)

\* more than 20 distinct words, some of them twice: words of both
\* frequencies are listed, and words are left out
C17_Witness ==
    /\ pc = "returned"
    /\ topics_analysis.unique_words > 20
    /\ Len(topics_analysis.top_words) = 20
    /\ topics_analysis.top_words[1][2] = 2
    /\ topics_analysis.top_words[1][1] # RetainedWords[1]
    /\ topics_analysis.top_words[20][2] = 1

\* what each stage of a run leaves behind once it has started or completed
Normalized == username # <<>>
CollectStarted == lookups > 0
Collected == user_data # EmptyDict
Analyzed == topics_analysis # EmptyDict /\ activity_analysis # EmptyDict
LlmStarted == outcomes # <<>>
LlmReturnedText == persona_text # NoText /\ outcomes # <<>> /\ outcomes[Len(outcomes)] = "text"
Cited == citations # EmptyDict
FileOpened == fs # NoFile

CollectErrors == {"ValueError: user not found", "iterator error", "item error"}
LlmErrors == {"ValueError: empty response", "generation error"}

\* C18: in a run of generate_persona each stage starts only after the one
\* before it has completed without raising, in the order normalize, collect,
\* analyze, LLM generation, citation extraction, file write: the LLM is not
\* called unless the collection has stored its snapshot and the analysis is
\* made, citations are not extracted unless an attempt returned text, and
\* the file is not opened unless both happened; a stage that raised has no
\* successor.
C18_StagesInOrder ==
    /\ CollectStarted => Normalized
    /\ Collected => (CollectStarted /\ pc \notin {"start", "lookup", "posts", "comments"})
    /\ Analyzed => Collected
    /\ LlmStarted => (Analyzed /\ Collected)
    /\ Cited => (LlmReturnedText /\ pc # "llm")
    /\ FileOpened => (Cited /\ LlmReturnedText /\ Collected)
    /\ (pc = "raised" /\ err = "ValueError: invalid url") => ~CollectStarted
    /\ (pc = "raised" /\ err \in CollectErrors) => ~Collected
    /\ (pc = "raised" /\ err \in LlmErrors) => ~Cited

\* a run that went through every stage, the LLM answering at the third call
C18_Witness ==
    /\ pc = "done"
    /\ Normalized /\ Collected /\ Analyzed /\ Cited /\ FileOpened
    /\ outcomes = <<"empty", "exception", "text">>
    /\ Len(fs) = 7

\* C19: collect_user_data replaces self.user_data only as its last step, on
\* success: while it runs, and after it has raised (the lookup failed, an
\* iterator raised, an item's error escaped), self.user_data is what it was
\* before the call, the previous user's snapshot, never a partial one; after
\* it has returned it is the snapshot of this run.
C19_UserDataReplacedLast ==
    /\ pc \in {"start", "lookup", "posts", "comments"} => user_data = PreviousData
    /\ (pc = "raised" /\ err \in CollectErrors \cup {"ValueError: invalid url"}) =>
          user_data = PreviousData
    /\ (pc \notin {"start", "lookup", "posts", "comments"} /\ lookups > 0
            /\ ~(pc = "raised" /\ err \in CollectErrors)) =>
          user_data = CollectedData(comments)

\* an iterator raised after a post of this run was collected
C19_Witness ==
    /\ pc = "raised" /\ err = "iterator error"
    /\ posts # <<>>
    /\ user_data = PreviousData
    /\ user_data.user_info.username # username
=============================================================================
